---------------------------- MODULE Spec2Model ----------------------------
(***************************************************************************)
(* httpnpipe: a net/http RoundTripper that carries HTTP over named pipes.  *)
(* One Transport is shared by the goroutines of Procs.  Each goroutine     *)
(* repeatedly calls RegisterTargetService or RoundTrip; the named pipe and *)
(* the listener behind it are the environment.                             *)
(***************************************************************************)
EXTENDS Integers, Sequences, FiniteSets, TLC

\* ----------------------------------------------------------------- bounds
\* Total number of calls (RegisterTargetService + RoundTrip) started.
MaxCalls == 3

\* ------------------------------------------------------------- input sets
Procs == {"g1", "g2"}

\* const Scheme = "http+npipe"
Scheme == "http+npipe"

\* The (service name, pipe name) pairs RegisterTargetService is called with.
Registrations == {<<"", "p1">>, <<"a", "p1">>, <<"a", "p2">>, <<"b", "p2">>}

ServiceNames == {reg[1] : reg \in Registrations}

\* A time.Duration field: 0 is unset, 1 stands for any positive duration.
Durations == {0, 1}

\* *http.Request: URL (nil or not), URL.Scheme, URL.Host and the separate
\* Host field.
NilURLRequest == [hasURL |-> FALSE, scheme |-> "", urlHost |-> "", host |-> ""]

Requests ==
    {NilURLRequest}
    \cup {[hasURL |-> TRUE, scheme |-> "http", urlHost |-> h, host |-> h] :
            h \in {"", "a"}}
    \cup {[hasURL |-> TRUE, scheme |-> Scheme, urlHost |-> h, host |-> h] :
            h \in {"", "a"}}
    \cup {[hasURL |-> TRUE, scheme |-> Scheme, urlHost |-> "b", host |-> "x"]}

Unlocked == "unlocked"

\* ------------------------------------------------------------------ state
VARIABLES
    DialTimeout,            \* Transport.DialTimeout
    RequestTimeout,         \* Transport.RequestTimeout
    ResponseHeaderTimeout,  \* Transport.ResponseHeaderTimeout
    mutex,                  \* Transport.mutex: Unlocked or the holder
    pipeMapping,            \* Transport.pipeMapping: [isNil, m]
    pc,                     \* where each goroutine is
    fn,                     \* the method each goroutine is in
    serviceName,            \* RegisterTargetService argument
    pipeName,               \* RegisterTargetService argument / RoundTrip local
    req,                    \* RoundTrip argument
    ok,                     \* RoundTrip local: lookup hit
    c,                      \* RoundTrip local: the dialed connection (0: none)
    io,                     \* pipe primitives the current call has invoked
    stalled,                \* the peer never completes the phase the call is in
    result,                 \* what the call yields: [resp, err, panic]
    conns,                  \* every connection dialed so far
    ncalls,                 \* calls started so far
    crashed                 \* an unrecovered panic ended the process

config == <<DialTimeout, RequestTimeout, ResponseHeaderTimeout>>
locals == <<serviceName, pipeName, req, ok, c, io, stalled>>
vars == <<DialTimeout, RequestTimeout, ResponseHeaderTimeout, mutex,
          pipeMapping, pc, fn, serviceName, pipeName, req, ok, c, io, stalled,
          result, conns, ncalls, crashed>>

\* --------------------------------------------------------------- helpers
NoResult == [resp |-> <<>>, err |-> <<>>, panic |-> FALSE]
\* ErrResult raising the error as a panic instead of returning it.
ErrResultPanics(e) == [resp |-> <<>>, err |-> e, panic |-> TRUE]

ErrResult(e) == [resp |-> <<>>, err |-> e, panic |-> FALSE]
RespResult(r) == [resp |-> <<r>>, err |-> <<>>, panic |-> FALSE]
PanicResult(msg) == [resp |-> <<>>, err |-> msg, panic |-> TRUE]

\* errors.New("http+npipe: nil Request.URL")
ErrNilURL == <<"http+npipe: nil Request.URL", "">>
\* errors.New("unsupported protocol scheme: " + req.URL.Scheme)
ErrScheme(r) == <<"unsupported protocol scheme: ", r.scheme>>
\* errors.New("http+npipe: no Host in request URL")
ErrNoHost == <<"http+npipe: no Host in request URL", "">>
\* errors.New("unknown service: " + req.Host)
ErrUnknownService(r) == <<"unknown service: ", r.host>>

\* Errors of the collaborators (the pipe primitive and net/http).
ErrDial == <<"open pipe: ", "not found">>
ErrDialTimeout == <<"open pipe: ", "i/o timeout">>
ErrWrite == <<"write pipe: ", "broken pipe">>
ErrWriteTimeout == <<"write pipe: ", "i/o timeout">>
ErrRead == <<"read response: ", "malformed HTTP response">>
ErrReadTimeout == <<"read response: ", "i/o timeout">>

\* The zero value of Transport.pipeMapping is the nil map.
NilMap == [isNil |-> TRUE, m |-> <<>>]

\* make(map[string]string)
MakeMap == [isNil |-> FALSE, m |-> <<>>]

\* _, exists := m[k] (a nil map has no keys)
HasKey(pm, k) == ~pm.isNil /\ k \in DOMAIN pm.m

\* v, ok := m[k]
MapLookup(pm, k) ==
    IF HasKey(pm, k) THEN [pipeName |-> pm.m[k], ok |-> TRUE]
    ELSE [pipeName |-> "", ok |-> FALSE]

\* m[k] = v
MapStore(pm, k, v) ==
    [pm EXCEPT !.m = [x \in (DOMAIN pm.m) \cup {k} |->
                        IF x = k THEN v ELSE pm.m[x]]]

\* EnsureMap making a new map on every call.
EnsureMapAlwaysMakes(pm) == MakeMap

\* if transport.pipeMapping == nil { transport.pipeMapping = make(...) }
EnsureMap(pm) == IF pm.isNil THEN MakeMap ELSE pm

\* Validate without the req.URL == nil guard.
ValidateNoNilCheck(r) ==
    IF r.scheme # Scheme THEN ErrScheme(r)
    ELSE IF r.urlHost = "" THEN ErrNoHost
    ELSE <<>>

\* Validate without the scheme guard.
ValidateNoSchemeCheck(r) ==
    IF ~r.hasURL THEN ErrNilURL
    ELSE IF r.urlHost = "" THEN ErrNoHost
    ELSE <<>>

\* Validate without the empty-host guard.
ValidateNoHostCheck(r) ==
    IF ~r.hasURL THEN ErrNilURL
    ELSE IF r.scheme # Scheme THEN ErrScheme(r)
    ELSE <<>>

\* The three guards at the head of RoundTrip; <<>> when the request passes.
Validate(r) ==
    IF ~r.hasURL THEN ErrNilURL
    ELSE IF r.scheme # Scheme THEN ErrScheme(r)
    ELSE IF r.urlHost = "" THEN ErrNoHost
    ELSE <<>>

At(p, where) == ~crashed /\ pc[p] = where

ResetLocals(p) ==
    /\ serviceName' = [serviceName EXCEPT ![p] = ""]
    /\ pipeName' = [pipeName EXCEPT ![p] = ""]
    /\ req' = [req EXCEPT ![p] = NilURLRequest]
    /\ ok' = [ok EXCEPT ![p] = FALSE]
    /\ c' = [c EXCEPT ![p] = 0]
    /\ io' = [io EXCEPT ![p] = <<>>]
    /\ stalled' = [stalled EXCEPT ![p] = FALSE]

\* ------------------------------------------------------------------- Init
Init ==
    /\ DialTimeout \in Durations
    /\ RequestTimeout \in Durations
    /\ ResponseHeaderTimeout \in Durations
    /\ mutex = Unlocked
    /\ pipeMapping = NilMap
    /\ pc = [p \in Procs |-> "idle"]
    /\ fn = [p \in Procs |-> "none"]
    /\ serviceName = [p \in Procs |-> ""]
    /\ pipeName = [p \in Procs |-> ""]
    /\ req = [p \in Procs |-> NilURLRequest]
    /\ ok = [p \in Procs |-> FALSE]
    /\ c = [p \in Procs |-> 0]
    /\ io = [p \in Procs |-> <<>>]
    /\ stalled = [p \in Procs |-> FALSE]
    /\ result = [p \in Procs |-> NoResult]
    /\ conns = <<>>
    /\ ncalls = 0
    /\ crashed = FALSE

\* ------------------------------------------------- RegisterTargetService
\* A goroutine calls transport.RegisterTargetService(name, pipe).
RegisterCall(p, name, pipe) ==
    /\ At(p, "idle")
    /\ ncalls < MaxCalls
    /\ ncalls' = ncalls + 1
    /\ pc' = [pc EXCEPT ![p] = "reg_lock"]
    /\ fn' = [fn EXCEPT ![p] = "RegisterTargetService"]
    /\ serviceName' = [serviceName EXCEPT ![p] = name]
    /\ pipeName' = [pipeName EXCEPT ![p] = pipe]
    /\ UNCHANGED <<config, mutex, pipeMapping, req, ok, c, io, stalled, result,
                   conns, crashed>>

\* Lock not waiting for the holder of the mutex.
LockNeverWaits(m) == TRUE

\* transport.mutex.Lock() returns only when nobody holds the mutex.
LockAvailable(m) == m = Unlocked

\* RegisterTargetService storing over an existing entry without a panic.
RegisterNeverPanics(pm, name) == FALSE

\* if _, exists := transport.pipeMapping[serviceName]; exists { panic }
RegisterPanics(pm, name) == HasKey(EnsureMap(pm), name)

\* transport.mutex.Lock() succeeds and lines 64-69 run under the lock: the
\* map is made if nil, and a name that is present panics.
RegLocked(p) ==
    /\ At(p, "reg_lock")
    /\ LockAvailable(mutex)
    /\ mutex' = p
    /\ pipeMapping' = EnsureMap(pipeMapping)
    /\ IF RegisterPanics(pipeMapping, serviceName[p])
       THEN /\ result' = [result EXCEPT ![p] =
                            PanicResult(<<"service ", serviceName[p],
                                          " already registered">>)]
            /\ pc' = [pc EXCEPT ![p] = "reg_unlock"]
       ELSE /\ result' = [result EXCEPT ![p] = NoResult]
            /\ pc' = [pc EXCEPT ![p] = "reg_store"]
    /\ UNCHANGED <<config, fn, locals, conns, ncalls, crashed>>

\* transport.pipeMapping[serviceName] = pipeName (line 70), under the lock.
RegStore(p) ==
    /\ At(p, "reg_store")
    /\ pipeMapping' = MapStore(pipeMapping, serviceName[p], pipeName[p])
    /\ pc' = [pc EXCEPT ![p] = "reg_unlock"]
    /\ UNCHANGED <<config, mutex, fn, locals, result, conns, ncalls, crashed>>

\* An Unlock that a panic skips (not deferred).
UnlockSkippedByPanic(holder, panicking) ==
    IF panicking THEN holder ELSE Unlocked

\* The mutex after the deferred Unlock ran.
DeferredUnlock(holder, panicking) == Unlocked

\* defer transport.mutex.Unlock(): runs on return and while panicking.
RegUnlock(p) ==
    /\ At(p, "reg_unlock")
    /\ mutex' = DeferredUnlock(mutex, result[p].panic)
    /\ pc' = [pc EXCEPT ![p] = "done"]
    /\ UNCHANGED <<config, pipeMapping, fn, locals, result, conns, ncalls,
                   crashed>>

\* -------------------------------------------------------------- RoundTrip
\* A goroutine calls transport.RoundTrip(req); lines 78-86 run at once.
RoundTripCall(p, r) ==
    /\ At(p, "idle")
    /\ ncalls < MaxCalls
    /\ ncalls' = ncalls + 1
    /\ fn' = [fn EXCEPT ![p] = "RoundTrip"]
    /\ req' = [req EXCEPT ![p] = r]
    /\ IF Validate(r) # <<>>
       THEN /\ pc' = [pc EXCEPT ![p] = "done"]
            /\ result' = [result EXCEPT ![p] = ErrResult(Validate(r))]
       ELSE /\ pc' = [pc EXCEPT ![p] = "rt_lock"]
            /\ result' = [result EXCEPT ![p] = NoResult]
    /\ UNCHANGED <<config, mutex, pipeMapping, serviceName, pipeName, ok, c,
                   io, stalled, conns, crashed>>

\* The key RoundTrip looks up.
LookupKey(r) == r.urlHost

\* A lookup that makes the map when it finds it nil.
MapAfterLookupMakes(pm, k) == EnsureMap(pm)

\* The map after the index expression at line 89: reading a map, nil or
\* not, leaves it as it is.
MapAfterLookup(pm, k) == pm

\* transport.mutex.Lock() succeeds and the lookup runs under the lock:
\* pipeName, ok := transport.pipeMapping[req.URL.Host]
RtLocked(p) ==
    /\ At(p, "rt_lock")
    /\ LockAvailable(mutex)
    /\ mutex' = p
    /\ pipeMapping' = MapAfterLookup(pipeMapping, LookupKey(req[p]))
    /\ pipeName' = [pipeName EXCEPT ![p] =
                      MapLookup(pipeMapping, LookupKey(req[p])).pipeName]
    /\ ok' = [ok EXCEPT ![p] = MapLookup(pipeMapping, LookupKey(req[p])).ok]
    /\ pc' = [pc EXCEPT ![p] = "rt_unlock"]
    /\ UNCHANGED <<config, fn, serviceName, req, c, io, stalled, result, conns,
                   ncalls, crashed>>

\* RoundTrip keeping the mutex after the lookup.
RtUnlockMutexKeeps(holder) == holder

\* The mutex after line 90.
RtUnlockMutex(holder) == Unlocked

\* RoundTrip going on to dial whatever the lookup found.
ProceedsToDialAlways(found) == TRUE

\* Whether the call goes on to dial after the lookup.
ProceedsToDial(found) == found

\* transport.mutex.Unlock(); if !ok { return } else the call enters
\* sockets.DialPipe(pipeName, transport.DialTimeout); st: the pipe never
\* answers this dial.
RtUnlock(p, st) ==
    /\ At(p, "rt_unlock")
    /\ mutex' = RtUnlockMutex(mutex)
    /\ IF ProceedsToDial(ok[p])
       THEN /\ pc' = [pc EXCEPT ![p] = "rt_dial"]
            /\ io' = [io EXCEPT ![p] = Append(@, "DialPipe")]
            /\ stalled' = [stalled EXCEPT ![p] = st]
            /\ UNCHANGED result
       ELSE /\ st = FALSE
            /\ pc' = [pc EXCEPT ![p] = "done"]
            /\ result' = [result EXCEPT ![p] =
                            ErrResult(ErrUnknownService(req[p]))]
            /\ UNCHANGED <<io, stalled>>
    /\ UNCHANGED <<config, pipeMapping, fn, serviceName, pipeName, req, ok, c,
                   conns, ncalls, crashed>>

\* A connection as DialPipe hands it out to the call of p: no deadlines,
\* nothing written or read, open; bodyErr: the error of the caller's last
\* read of the response body.
NewConn(p) ==
    [owner |-> p, wdl |-> FALSE, rdl |-> FALSE, writes |-> 0, reads |-> 0,
     closedBy |-> "none", bodyErr |-> "none"]

\* DialConn handing out the last connection again when there is one.
DialConnReuses(cs) == IF cs = <<>> THEN 1 ELSE Len(cs)

\* The connection DialPipe returns: always a new one.
DialConn(cs) == Len(cs) + 1

\* RoundTrip setting the write deadline whatever RequestTimeout is.
WriteDeadlineAlways(t) == TRUE

\* if transport.RequestTimeout > 0
WriteDeadlineWanted(t) == t > 0

\* RoundTrip never setting the read deadline.
ReadDeadlineNever(t) == FALSE

\* RoundTrip setting the read deadline whatever ResponseHeaderTimeout is.
ReadDeadlineAlways(t) == TRUE

\* if transport.ResponseHeaderTimeout > 0
ReadDeadlineWanted(t) == t > 0

\* Whether DialPipe gives up when the pipe does not accept.
DialBounded(t) == t > 0

\* DialPipe succeeds: c is the new connection; lines 100-105 run up to the
\* point where req.Write(c) is entered; st: the peer never takes the request.
DialOk(p, st) ==
    /\ At(p, "rt_dial")
    /\ ~stalled[p]
    /\ stalled' = [stalled EXCEPT ![p] = st]
    /\ LET id == DialConn(conns)
           wd == WriteDeadlineWanted(RequestTimeout)
       IN /\ c' = [c EXCEPT ![p] = id]
          \* a connection that already exists keeps its record
          /\ conns' = IF id \in DOMAIN conns
                      THEN [conns EXCEPT ![id].wdl = @ \/ wd]
                      ELSE Append(conns, [NewConn(p) EXCEPT !.wdl = wd])
          /\ io' = [io EXCEPT ![p] =
                      @ \o (IF wd THEN <<"SetWriteDeadline">> ELSE <<>>)
                        \o <<"Write">>]
    /\ pc' = [pc EXCEPT ![p] = "rt_write"]
    /\ UNCHANGED <<config, mutex, pipeMapping, fn, serviceName, pipeName, req,
                   ok, result, ncalls, crashed>>

\* AfterFailure staying in the failed phase to try it again.
AfterFailureRetries(where) == where

\* Where a call is after a phase failed: `return nil, err`.
AfterFailure(where) == "done"

\* DialPipe fails: if err != nil { return nil, err }
DialFail(p) ==
    /\ At(p, "rt_dial")
    /\ ~stalled[p]
    /\ pc' = [pc EXCEPT ![p] = AfterFailure("rt_dial")]
    /\ result' = [result EXCEPT ![p] = ErrResult(ErrDial)]
    /\ UNCHANGED <<config, mutex, pipeMapping, fn, locals, conns, ncalls,
                   crashed>>

\* DialPipe gives up after transport.DialTimeout.
DialTimeoutExpire(p) ==
    /\ At(p, "rt_dial")
    /\ DialBounded(DialTimeout)
    /\ pc' = [pc EXCEPT ![p] = AfterFailure("rt_dial")]
    /\ result' = [result EXCEPT ![p] = ErrResult(ErrDialTimeout)]
    /\ UNCHANGED <<config, mutex, pipeMapping, fn, locals, conns, ncalls,
                   crashed>>

\* RoundTrip closing its connection when it returns.
ConnClosedAtReturn(cn) == [cn EXCEPT !.closedBy = "transport"]

\* What RoundTrip does to its connection when it returns: nothing.
ConnAtReturn(cn) == cn

\* req.Write(c) succeeds; lines 109-113 run up to the point where
\* http.ReadResponse(r, req) is entered; st: the listener never responds.
WriteOk(p, st) ==
    /\ At(p, "rt_write")
    /\ ~stalled[p]
    /\ stalled' = [stalled EXCEPT ![p] = st]
    /\ LET rd == ReadDeadlineWanted(ResponseHeaderTimeout)
       IN /\ conns' = [conns EXCEPT ![c[p]].writes = @ + 1,
                                    ![c[p]].rdl = @ \/ rd]
          /\ io' = [io EXCEPT ![p] =
                      @ \o (IF rd THEN <<"SetReadDeadline">> ELSE <<>>)
                        \o <<"ReadResponse">>]
    /\ pc' = [pc EXCEPT ![p] = "rt_read"]
    /\ UNCHANGED <<config, mutex, pipeMapping, fn, serviceName, pipeName, req,
                   ok, c, result, ncalls, crashed>>

\* req.Write(c) fails: if err != nil { return nil, err }
WriteFail(p) ==
    /\ At(p, "rt_write")
    /\ ~stalled[p]
    /\ pc' = [pc EXCEPT ![p] = AfterFailure("rt_write")]
    /\ result' = [result EXCEPT ![p] = ErrResult(ErrWrite)]
    /\ conns' = [conns EXCEPT ![c[p]] = ConnAtReturn(@)]
    /\ UNCHANGED <<config, mutex, pipeMapping, fn, locals, ncalls, crashed>>

\* The write deadline set at line 102 expires inside req.Write(c).
WriteDeadlineExpire(p) ==
    /\ At(p, "rt_write")
    /\ conns[c[p]].wdl
    /\ pc' = [pc EXCEPT ![p] = AfterFailure("rt_write")]
    /\ result' = [result EXCEPT ![p] = ErrResult(ErrWriteTimeout)]
    /\ conns' = [conns EXCEPT ![c[p]] = ConnAtReturn(@)]
    /\ UNCHANGED <<config, mutex, pipeMapping, fn, locals, ncalls, crashed>>

\* The *http.Response ReadResponse builds: its Body reads from the
\* connection, its Request is req.
Response(p) == [conn |-> c[p], req |-> req[p]]

\* http.ReadResponse parses a response: return resp, err (err nil).
ReadOk(p) ==
    /\ At(p, "rt_read")
    /\ ~stalled[p]
    /\ pc' = [pc EXCEPT ![p] = "done"]
    /\ result' = [result EXCEPT ![p] = RespResult(Response(p))]
    /\ conns' = [conns EXCEPT ![c[p]] =
                   ConnAtReturn([@ EXCEPT !.reads = @ + 1])]
    /\ UNCHANGED <<config, mutex, pipeMapping, fn, locals, ncalls, crashed>>

\* http.ReadResponse fails on what it read: return resp, err (resp nil).
ReadFail(p) ==
    /\ At(p, "rt_read")
    /\ ~stalled[p]
    /\ pc' = [pc EXCEPT ![p] = AfterFailure("rt_read")]
    /\ result' = [result EXCEPT ![p] = ErrResult(ErrRead)]
    /\ conns' = [conns EXCEPT ![c[p]] =
                   ConnAtReturn([@ EXCEPT !.reads = @ + 1])]
    /\ UNCHANGED <<config, mutex, pipeMapping, fn, locals, ncalls, crashed>>

\* The read deadline set at line 110 expires inside http.ReadResponse.
ReadDeadlineExpire(p) ==
    /\ At(p, "rt_read")
    /\ conns[c[p]].rdl
    /\ pc' = [pc EXCEPT ![p] = AfterFailure("rt_read")]
    /\ result' = [result EXCEPT ![p] = ErrResult(ErrReadTimeout)]
    /\ conns' = [conns EXCEPT ![c[p]] = ConnAtReturn(@)]
    /\ UNCHANGED <<config, mutex, pipeMapping, fn, locals, ncalls, crashed>>

\* ------------------------------------------------------------ the callers
\* The call's outcome reaches its caller: a returned response hands the
\* connection to the caller (through resp.Body); after an error nothing
\* refers to the connection any more; a panic is recovered here.
Return(p) ==
    /\ At(p, "done")
    /\ pc' = [pc EXCEPT ![p] = "idle"]
    /\ fn' = [fn EXCEPT ![p] = "none"]
    /\ result' = [result EXCEPT ![p] = NoResult]
    /\ conns' = IF c[p] = 0 THEN conns
                ELSE [conns EXCEPT ![c[p]].owner =
                        IF conns[c[p]].owner # p THEN @
                        ELSE IF result[p].resp # <<>> THEN "caller"
                        ELSE "nobody"]
    /\ ResetLocals(p)
    /\ UNCHANGED <<config, mutex, pipeMapping, ncalls, crashed>>

\* The panic of RegisterTargetService is not recovered: the process ends.
PanicAbort(p) ==
    /\ At(p, "done")
    /\ result[p].panic
    /\ crashed' = TRUE
    /\ UNCHANGED <<config, mutex, pipeMapping, pc, fn, locals, result, conns,
                   ncalls>>

\* The caller closes resp.Body, which closes the connection under it.
CallerCloseBody(i) ==
    /\ ~crashed
    /\ i \in DOMAIN conns
    /\ conns[i].owner = "caller"
    /\ conns[i].closedBy = "none"
    /\ conns' = [conns EXCEPT ![i].closedBy = "caller"]
    /\ UNCHANGED <<config, mutex, pipeMapping, pc, fn, locals, result, ncalls,
                   crashed>>

\* The error of a read of resp.Body: the read deadline set at line 110 is
\* still on the connection, so a read after that instant (late) times out,
\* and so does every read after it.
BodyReadError(cn, late) ==
    IF cn.rdl /\ (late \/ cn.bodyErr = "timeout") THEN "timeout" ELSE "none"

\* The caller reads from resp.Body, that is from the connection under it.
CallerReadBody(i, late) ==
    /\ ~crashed
    /\ i \in DOMAIN conns
    /\ conns[i].owner = "caller"
    /\ conns[i].closedBy = "none"
    /\ conns' = [conns EXCEPT ![i].bodyErr = BodyReadError(conns[i], late)]
    /\ UNCHANGED <<config, mutex, pipeMapping, pc, fn, locals, result, ncalls,
                   crashed>>

\* ------------------------------------------------------------------- Next
Next ==
    \/ \E p \in Procs, reg \in Registrations : RegisterCall(p, reg[1], reg[2])
    \/ \E p \in Procs : RegLocked(p)
    \/ \E p \in Procs : RegStore(p)
    \/ \E p \in Procs : RegUnlock(p)
    \/ \E p \in Procs, r \in Requests : RoundTripCall(p, r)
    \/ \E p \in Procs : RtLocked(p)
    \/ \E p \in Procs, st \in BOOLEAN : RtUnlock(p, st)
    \/ \E p \in Procs, st \in BOOLEAN : DialOk(p, st)
    \/ \E p \in Procs : DialFail(p)
    \/ \E p \in Procs : DialTimeoutExpire(p)
    \/ \E p \in Procs, st \in BOOLEAN : WriteOk(p, st)
    \/ \E p \in Procs : WriteFail(p)
    \/ \E p \in Procs : WriteDeadlineExpire(p)
    \/ \E p \in Procs : ReadOk(p)
    \/ \E p \in Procs : ReadFail(p)
    \/ \E p \in Procs : ReadDeadlineExpire(p)
    \/ \E p \in Procs : Return(p)
    \/ \E p \in Procs : PanicAbort(p)
    \/ \E i \in 1..MaxCalls : CallerCloseBody(i)
    \/ \E i \in 1..MaxCalls, late \in BOOLEAN : CallerReadBody(i, late)

Spec == Init /\ [][Next]_vars

\* The timers of the Go runtime fire: a dial bounded by DialTimeout and an
\* operation under a deadline do not outlast it.
Fairness ==
    \A p \in Procs :
        /\ WF_vars(DialTimeoutExpire(p))
        /\ WF_vars(WriteDeadlineExpire(p))
        /\ WF_vars(ReadDeadlineExpire(p))

LiveSpec == Init /\ [][Next]_vars /\ Fairness

\* ----------------------------------------------------------- properties
InRoundTrip(p) == fn[p] = "RoundTrip" /\ pc[p] # "idle"
Returned(p) == fn[p] = "RoundTrip" /\ pc[p] = "done"
InIO(p) == pc[p] \in {"rt_dial", "rt_write", "rt_read"}

\* The call yields an error whose message starts with msg, and no response.
FailsWith(res, msg) ==
    /\ res.resp = <<>>
    /\ ~res.panic
    /\ res.err # <<>>
    /\ res.err[1] = msg

\* The call has invoked no pipe primitive and has no connection.
NoIO(p) == io[p] = <<>> /\ c[p] = 0

\* C1: when RegisterTargetService takes the lock for a name the registry
\* already holds, the call panics and the registry is left exactly as it
\* was (the entry keeps its original pipe path); the store at line 70 never
\* runs for a name that is present; the deferred unlock then leaves the
\* panic outcome in place.
C1_DuplicateRegistrationPanics ==
    [][\A p \in Procs :
        /\ (pc[p] = "reg_lock" /\ pc'[p] # "reg_lock"
              /\ HasKey(pipeMapping, serviceName[p]))
           => (result'[p].panic /\ pc'[p] = "reg_unlock"
                 /\ pipeMapping' = pipeMapping)
        /\ (pc[p] = "reg_store" /\ pc'[p] # "reg_store")
           => ~HasKey(pipeMapping, serviceName[p])
        /\ (pc[p] = "reg_unlock" /\ pc'[p] # "reg_unlock")
           => (pc'[p] = "done" /\ result'[p] = result[p]
                 /\ pipeMapping' = pipeMapping)]_vars

\* A second registration of a name with a different pipe has panicked and
\* the entry still holds the first pipe.
C1_Witness ==
    \E p \in Procs :
        /\ pc[p] = "done"
        /\ result[p].panic
        /\ HasKey(pipeMapping, serviceName[p])
        /\ pipeMapping.m[serviceName[p]] # pipeName[p]

\* C2: no step removes or changes a registry entry or makes the map nil
\* again, and a registration that does not panic leaves its name mapped to
\* its pipe: the registry only grows.
C2_RegistryOnlyGrows ==
    [][/\ pipeMapping'.isNil => pipeMapping.isNil
       /\ \A n \in ServiceNames :
            HasKey(pipeMapping, n)
            => (HasKey(pipeMapping', n) /\ pipeMapping'.m[n] = pipeMapping.m[n])
       /\ \A p \in Procs :
            (pc[p] = "reg_store" /\ pc'[p] # "reg_store")
            => /\ HasKey(pipeMapping', serviceName[p])
               /\ pipeMapping'.m[serviceName[p]] = pipeName[p]]_vars

\* Two names are registered with the pipes given, and a RoundTrip has
\* since returned a response.
C2_Witness ==
    /\ HasKey(pipeMapping, "a")
    /\ HasKey(pipeMapping, "b")
    /\ pipeMapping.m["a"] # pipeMapping.m["b"]
    /\ \E p \in Procs : Returned(p) /\ result[p].resp # <<>>

\* C3: the lookup, made under the lock, finds the host exactly when the
\* registry holds it (never in the nil map); a call whose lookup found
\* nothing returns the "unknown service" error and no response, has invoked
\* no pipe primitive and has no connection.
C3_UnknownServiceNoIO ==
    \A p \in Procs :
        /\ pc[p] = "rt_unlock"
           => (ok[p] <=> HasKey(pipeMapping, req[p].urlHost))
        /\ (InRoundTrip(p) /\ pc[p] \notin {"rt_lock", "rt_unlock"}
              /\ Validate(req[p]) = <<>> /\ ~ok[p])
           => /\ pc[p] = "done"
              /\ FailsWith(result[p], "unknown service: ")
              /\ NoIO(p)

\* A request for a host has returned "unknown service" while the registry
\* map was still nil.
C3_Witness ==
    \E p \in Procs :
        /\ Returned(p)
        /\ pipeMapping.isNil
        /\ req[p].urlHost # ""
        /\ FailsWith(result[p], "unknown service: ")
        /\ NoIO(p)

\* C4: a request with a URL whose scheme is not Scheme returns the
\* "unsupported protocol scheme" error naming that scheme and no response,
\* with no pipe primitive invoked, whatever its host and the registry.
C4_UnsupportedSchemeNoIO ==
    \A p \in Procs :
        (InRoundTrip(p) /\ req[p].hasURL /\ req[p].scheme # Scheme)
        => /\ pc[p] = "done"
           /\ FailsWith(result[p], "unsupported protocol scheme: ")
           /\ result[p].err[2] = req[p].scheme
           /\ NoIO(p)

\* A request with a wrong scheme for a registered host has been refused.
C4_Witness ==
    \E p \in Procs :
        /\ Returned(p)
        /\ req[p].hasURL
        /\ req[p].scheme # Scheme
        /\ HasKey(pipeMapping, req[p].urlHost)
        /\ FailsWith(result[p], "unsupported protocol scheme: ")

\* C5: a request without a URL returns the "nil Request.URL" error and no
\* response, with no pipe primitive invoked.
C5_MissingURLNoIO ==
    \A p \in Procs :
        (InRoundTrip(p) /\ ~req[p].hasURL)
        => /\ pc[p] = "done"
           /\ FailsWith(result[p], "http+npipe: nil Request.URL")
           /\ NoIO(p)

\* A request without a URL has been refused.
C5_Witness ==
    \E p \in Procs :
        /\ Returned(p)
        /\ ~req[p].hasURL
        /\ result[p] = ErrResult(ErrNilURL)

\* C6: a request with scheme Scheme and an empty URL host returns the "no
\* Host in request URL" error and no response, with no pipe primitive
\* invoked, also when "" is a registered service name.
C6_MissingHostNoIO ==
    \A p \in Procs :
        (InRoundTrip(p) /\ req[p].hasURL /\ req[p].scheme = Scheme
           /\ req[p].urlHost = "")
        => /\ pc[p] = "done"
           /\ FailsWith(result[p], "http+npipe: no Host in request URL")
           /\ NoIO(p)

\* A request with an empty host has been refused while "" was registered.
C6_Witness ==
    \E p \in Procs :
        /\ Returned(p)
        /\ req[p].hasURL
        /\ req[p].scheme = Scheme
        /\ req[p].urlHost = ""
        /\ HasKey(pipeMapping, "")
        /\ result[p] = ErrResult(ErrNoHost)

\* C7: a call that is dialing, writing or reading does not hold the mutex.
C7_NoLockAcrossIO == \A p \in Procs : InIO(p) => mutex # p

\* While one call is stalled reading its response, another goroutine holds
\* the mutex inside RegisterTargetService.
C7_Witness ==
    \E p, q \in Procs :
        /\ pc[p] = "rt_read"
        /\ stalled[p]
        /\ pc[q] = "reg_unlock"
        /\ mutex = q

\* C8: as long as the process lives, a dial that the pipe never answers
\* ends with the dial timeout error when DialTimeout is set, and a read that
\* the listener never answers ends with the read timeout error when
\* ResponseHeaderTimeout is set.
C8_StalledPhaseTimesOut ==
    \A p \in Procs :
        /\ (pc[p] = "rt_dial" /\ stalled[p] /\ DialTimeout > 0)
           ~> (crashed \/ (pc[p] = "done" /\ result[p] = ErrResult(ErrDialTimeout)))
        /\ (pc[p] = "rt_read" /\ stalled[p] /\ ResponseHeaderTimeout > 0)
           ~> (crashed \/ (pc[p] = "done" /\ result[p] = ErrResult(ErrReadTimeout)))

\* One call has returned the dial timeout and another the read timeout,
\* each after its peer stalled.
C8_Witness ==
    \E p, q \in Procs :
        /\ Returned(p) /\ stalled[p] /\ result[p] = ErrResult(ErrDialTimeout)
        /\ Returned(q) /\ stalled[q] /\ result[q] = ErrResult(ErrReadTimeout)

\* C9: a successful dial gives the call a connection that did not exist
\* before, untouched and its own; no two calls hold the same connection;
\* every write to and read from a connection is a step of the call that
\* owns it; a returned response is the one read from the call's own
\* connection for its own request.
C9_ConnectionsNotShared ==
    [][/\ \A p \in Procs :
            (pc[p] = "rt_dial" /\ pc'[p] = "rt_write")
            => /\ c'[p] \notin DOMAIN conns
               /\ c'[p] \in DOMAIN conns'
               /\ conns'[c'[p]].owner = p
               /\ conns'[c'[p]].writes = 0
               /\ conns'[c'[p]].reads = 0
       /\ \A p, q \in Procs : (p # q /\ c'[p] # 0) => c'[p] # c'[q]
       /\ \A i \in DOMAIN conns :
            (conns'[i].writes # conns[i].writes
               \/ conns'[i].reads # conns[i].reads)
            => \E p \in Procs :
                  /\ pc[p] \in {"rt_write", "rt_read"}
                  /\ pc'[p] # pc[p]
                  /\ c[p] = i
                  /\ conns[i].owner = p
       /\ \A p \in Procs :
            (pc[p] # "done" /\ Returned(p)' /\ result'[p].resp # <<>>)
            => /\ result'[p].resp[1] = [conn |-> c[p], req |-> req[p]]
               /\ conns[c[p]].owner = p]_vars

\* Two calls are reading their responses at the same time, each from its
\* own connection, each having written its request once.
C9_Witness ==
    \E p, q \in Procs :
        /\ p # q
        /\ pc[p] = "rt_read" /\ pc[q] = "rt_read"
        /\ c[p] # c[q]
        /\ conns[c[p]].writes = 1 /\ conns[c[q]].writes = 1

\* C10: the connection under a returned response is open when RoundTrip
\* returns, and no connection is ever closed by anything but the caller
\* closing the body of a response it was given.
C10_ConnectionOpenAtReturn ==
    /\ \A p \in Procs :
          (Returned(p) /\ result[p].resp # <<>>)
          => /\ result[p].resp[1].conn = c[p]
             /\ conns[c[p]].closedBy = "none"
    /\ \A i \in DOMAIN conns :
          /\ conns[i].closedBy \in {"none", "caller"}
          /\ conns[i].closedBy = "caller" => conns[i].owner = "caller"

\* One response is being returned over an open connection while the
\* connection of an earlier response has been closed by its caller.
C10_Witness ==
    \E p \in Procs, i \in DOMAIN conns :
        /\ Returned(p)
        /\ result[p].resp # <<>>
        /\ conns[c[p]].closedBy = "none"
        /\ conns[i].closedBy = "caller"

\* C11: a call that returns an error after its dial succeeded has closed its
\* connection by then, and every open connection belongs to a call in
\* flight or to a response a caller holds.
C11_ErrorClosesConnection ==
    /\ \A p \in Procs :
          (Returned(p) /\ result[p].err # <<>> /\ c[p] # 0)
          => conns[c[p]].closedBy # "none"
    /\ \A i \in DOMAIN conns :
          conns[i].closedBy = "none" => conns[i].owner \in Procs \cup {"caller"}

\* C12: a RoundTrip that has returned yields either a response and no error
\* or an error and no response; no RoundTrip ever panics; a panic comes only
\* from RegisterTargetService called with a name the registry holds, and the
\* process ends only through such a panic.
C12_ResultOrErrorNeverFatal ==
    /\ \A p \in Procs :
          /\ Returned(p)
             => (result[p].resp # <<>>) # (result[p].err # <<>>)
          /\ InRoundTrip(p) => ~result[p].panic
          /\ result[p].panic
             => /\ fn[p] = "RegisterTargetService"
                /\ HasKey(pipeMapping, serviceName[p])
    /\ crashed
       => \E p \in Procs : result[p].panic /\ fn[p] = "RegisterTargetService"

\* A RoundTrip has returned the response parser's error while another
\* goroutine's duplicate registration has panicked.
C12_Witness ==
    \E p, q \in Procs :
        /\ Returned(p)
        /\ result[p] = ErrResult(ErrRead)
        /\ fn[q] = "RegisterTargetService"
        /\ result[q].panic

PhaseOrder == <<"DialPipe", "Write", "ReadResponse">>
IsPhase(x) == x \in {"DialPipe", "Write", "ReadResponse"}

\* The phases the current call of p has entered, in order.
PhasesOf(p) == SelectSeq(io[p], IsPhase)

\* C13: the phases a call has entered are a prefix of dial, write, read (each
\* at most once, in that order); a call that has an error has returned; the
\* error is the one of the last phase entered, as the pipe or the parser
\* gave it: after a dial error there is no connection, after a write error
\* nothing was read; no connection is written or read twice.
C13_PhasesOnceInOrder ==
    /\ \A p \in Procs :
          /\ PhasesOf(p) = SubSeq(PhaseOrder, 1, Len(PhasesOf(p)))
          /\ (InRoundTrip(p) /\ result[p].err # <<>>) => pc[p] = "done"
          /\ (Returned(p) /\ PhasesOf(p) = <<"DialPipe">>)
             => /\ result[p].err \in {ErrDial, ErrDialTimeout}
                /\ c[p] = 0
          /\ (Returned(p) /\ PhasesOf(p) = <<"DialPipe", "Write">>)
             => /\ result[p].err \in {ErrWrite, ErrWriteTimeout}
                /\ conns[c[p]].writes = 0
                /\ conns[c[p]].reads = 0
          /\ (Returned(p) /\ PhasesOf(p) = PhaseOrder /\ result[p].err # <<>>)
             => /\ result[p].err \in {ErrRead, ErrReadTimeout}
                /\ conns[c[p]].writes = 1
    /\ \A i \in DOMAIN conns : conns[i].writes <= 1 /\ conns[i].reads <= 1

\* A call whose write failed has returned the write error without reading.
C13_Witness ==
    \E p \in Procs :
        /\ Returned(p)
        /\ result[p] = ErrResult(ErrWrite)
        /\ PhasesOf(p) = <<"DialPipe", "Write">>
        /\ conns[c[p]].reads = 0

\* C14: no read of a returned response's body is cut off by the read
\* deadline that was set for ResponseHeaderTimeout.
C14_BodyReadsNotCutOff ==
    \A i \in DOMAIN conns : conns[i].bodyErr # "timeout"

\* Position of the first x in seq, 0 when there is none.
IndexOf(seq, x) ==
    IF \E k \in DOMAIN seq : seq[k] = x
    THEN CHOOSE k \in DOMAIN seq :
            seq[k] = x /\ \A j \in DOMAIN seq : seq[j] = x => k <= j
    ELSE 0

\* C15: in a call that has entered req.Write, SetWriteDeadline was invoked
\* before it exactly when RequestTimeout > 0, and the connection has a write
\* deadline exactly then; with RequestTimeout unset no connection ever has
\* a write deadline, and a write whose peer stalls cannot end.
C15_WriteDeadlineIffRequestTimeout ==
    /\ \A p \in Procs :
          IndexOf(io[p], "Write") # 0
          => /\ (RequestTimeout > 0)
                <=> /\ IndexOf(io[p], "SetWriteDeadline") # 0
                    /\ IndexOf(io[p], "SetWriteDeadline") < IndexOf(io[p], "Write")
             /\ (RequestTimeout > 0) <=> conns[c[p]].wdl
             /\ (RequestTimeout = 0) => IndexOf(io[p], "SetWriteDeadline") = 0
             /\ (pc[p] = "rt_write" /\ stalled[p] /\ RequestTimeout = 0)
                => ~ENABLED WriteDeadlineExpire(p)
    /\ \A i \in DOMAIN conns : conns[i].wdl => RequestTimeout > 0

\* With RequestTimeout unset a call is blocked in a write its peer never
\* takes, no write deadline having been set.
C15_Witness ==
    \E p \in Procs :
        /\ pc[p] = "rt_write"
        /\ stalled[p]
        /\ RequestTimeout = 0
        /\ io[p] = <<"DialPipe", "Write">>

\* C16: in a call that has entered http.ReadResponse, SetReadDeadline was
\* invoked after req.Write and before ReadResponse exactly when
\* ResponseHeaderTimeout > 0, the request having been written and nothing
\* read yet; while a call is still writing, its connection has no read
\* deadline; no connection has a read deadline with the timeout unset.
C16_ReadDeadlineAfterWrite ==
    /\ \A p \in Procs :
          /\ IndexOf(io[p], "ReadResponse") # 0
             => /\ (ResponseHeaderTimeout > 0)
                   <=> /\ IndexOf(io[p], "Write")
                            < IndexOf(io[p], "SetReadDeadline")
                       /\ IndexOf(io[p], "SetReadDeadline")
                            < IndexOf(io[p], "ReadResponse")
                /\ (ResponseHeaderTimeout > 0) <=> conns[c[p]].rdl
                /\ conns[c[p]].writes = 1
          /\ pc[p] = "rt_read" => conns[c[p]].reads = 0
          /\ pc[p] = "rt_write"
             => /\ ~conns[c[p]].rdl
                /\ IndexOf(io[p], "SetReadDeadline") = 0
    /\ \A i \in DOMAIN conns :
          conns[i].rdl => (ResponseHeaderTimeout > 0 /\ conns[i].writes = 1)

\* A call is reading its response under a read deadline set after its
\* request was written.
C16_Witness ==
    \E p \in Procs :
        /\ pc[p] = "rt_read"
        /\ ResponseHeaderTimeout > 0
        /\ io[p] = <<"DialPipe", "Write", "SetReadDeadline", "ReadResponse">>
        /\ conns[c[p]].rdl
        /\ conns[c[p]].writes = 1

\* p holds the mutex: it is between Lock and Unlock.
InCriticalSection(p) == pc[p] \in {"reg_store", "reg_unlock", "rt_unlock"}

\* The registration of p has passed the duplicate check without a panic.
RegisterSucceeds(p) ==
    /\ fn[p] = "RegisterTargetService"
    /\ pc[p] \in {"reg_store", "reg_unlock", "done"}
    /\ ~result[p].panic

\* C17: at most one goroutine is between Lock and Unlock, and it is the
\* holder of the mutex; of the registrations of one name that are under way
\* or just finished at most one succeeds, and once it has stored, the
\* registry maps the name to its pipe; one that panics found the name
\* registered; a lookup that hit holds the pipe the registry maps the host
\* to, and one that missed holds none.
C17_RegistrationAtomic ==
    /\ \A p, q \in Procs :
          (p # q /\ InCriticalSection(p)) => ~InCriticalSection(q)
    /\ \A p \in Procs :
          /\ InCriticalSection(p) => mutex = p
          /\ (RegisterSucceeds(p) /\ pc[p] # "reg_store")
             => /\ HasKey(pipeMapping, serviceName[p])
                /\ pipeMapping.m[serviceName[p]] = pipeName[p]
          /\ (fn[p] = "RegisterTargetService" /\ result[p].panic)
             => HasKey(pipeMapping, serviceName[p])
          /\ (InRoundTrip(p) /\ pc[p] # "rt_lock" /\ Validate(req[p]) = <<>>)
             => IF ok[p]
                THEN /\ HasKey(pipeMapping, req[p].urlHost)
                     /\ pipeName[p] = pipeMapping.m[req[p].urlHost]
                ELSE pipeName[p] = ""
    /\ \A p, q \in Procs :
          (p # q /\ RegisterSucceeds(p) /\ RegisterSucceeds(q))
          => serviceName[p] # serviceName[q]

\* Two goroutines registered the same name with different pipes and nothing
\* else was ever called: one has succeeded, the other has panicked, and the
\* registry maps the name to the pipe of the one that succeeded.
C17_Witness ==
    \E p, q \in Procs :
        /\ ncalls = 2
        /\ pc[p] = "done" /\ pc[q] = "done"
        /\ RegisterSucceeds(p)
        /\ fn[q] = "RegisterTargetService" /\ result[q].panic
        /\ serviceName[p] = serviceName[q]
        /\ pipeName[p] # pipeName[q]
        /\ pipeMapping.m[serviceName[p]] = pipeName[p]

\* C18: every step of a RoundTrip call, from the call to the return of its
\* outcome, leaves the registry as it is.
C18_RoundTripLeavesRegistry ==
    [][\A p \in Procs :
        ((fn[p] = "RoundTrip" \/ fn'[p] = "RoundTrip") /\ pc'[p] # pc[p])
        => pipeMapping' = pipeMapping]_vars

\* RoundTrip calls have ended in each of: an unknown service (looked up in
\* a registry that holds another name), and a response.
C18_Witness ==
    \E p, q \in Procs :
        /\ Returned(p)
        /\ FailsWith(result[p], "unknown service: ")
        /\ ~pipeMapping.isNil
        /\ Returned(q)
        /\ result[q].resp # <<>>

\* C19: the mutex is held only by a goroutine between Lock and Unlock, never
\* by one whose call has ended, in a panic or not; so whenever nobody is in
\* a critical section a goroutine waiting in Lock can take the mutex, and a
\* goroutine in a critical section can always go on to release it.
C19_LockReleasedOnEveryExit ==
    /\ mutex \in Procs \cup {Unlocked}
    /\ \A p \in Procs :
          /\ mutex = p => InCriticalSection(p)
          /\ (pc[p] = "done" /\ result[p].panic) => mutex # p
          /\ (~crashed /\ pc[p] = "reg_lock"
                /\ \A q \in Procs : ~InCriticalSection(q))
             => ENABLED RegLocked(p)
          /\ (~crashed /\ pc[p] = "rt_lock"
                /\ \A q \in Procs : ~InCriticalSection(q))
             => ENABLED RtLocked(p)
          /\ (~crashed /\ pc[p] = "reg_unlock") => ENABLED RegUnlock(p)

\* While the panic of a duplicate registration is on its way to the caller,
\* another goroutine has taken the mutex the panicking call held.
C19_Witness ==
    \E p, q \in Procs :
        /\ p # q
        /\ pc[p] = "done"
        /\ result[p].panic
        /\ mutex = q
        /\ InCriticalSection(q)

\* C20: the "unknown service" error names the URL host, the name that was
\* looked up in the registry.
C20_UnknownServiceNamesLookupKey ==
    \A p \in Procs :
        (Returned(p) /\ FailsWith(result[p], "unknown service: "))
        => result[p].err[2] = LookupKey(req[p])

=============================================================================
